---- MODULE Spec2Model ----
(***************************************************************************)
(* State-machine model of notify-on-file.js: the watcher registry          *)
(* (updateConfiguration / createWatcher / disposeWatchers), the            *)
(* save-origin set with its 500 ms removal timers, the file-event          *)
(* handlers and the asynchronous action executor (actions).                *)
(*                                                                         *)
(* JavaScript runs each handler to its next await; every await is a       *)
(* suspension point at which any other handler may run.  Each action of    *)
(* the model is one such run: from an event (or the completion of the     *)
(* awaited operation) to the next await of the code.                       *)
(***************************************************************************)
EXTENDS Integers, Sequences, FiniteSets, Bags, TLC

VARIABLES
  phase,                  \* "loaded" | "active" | "deactivated"
  config,                 \* content of the host's configuration store
  workspaceFolders,       \* names of the open workspace folders (line 63)
  watchers,               \* the registry list (line 335)
  live,                   \* host side: watchers created and not disposed
  reloads,                \* bag of suspended updateConfiguration invocations
  recentlySavedByVSCode,  \* the save-origin set (line 349)
  timers,                 \* pending setTimeout callbacks of line 478
  sinceSave,              \* history: time since the last internal save
  tasks,                  \* bag of suspended actions() invocations
  statusBarItems,         \* the status bar item cache (line 331)
  items,                  \* host side: bag of the ids of the status bar
                          \* items created (line 236) and not disposed
  echo,                   \* host side: the files an autoSave has written
                          \* whose change event is not delivered yet
  lastEvent               \* history: what the step just taken delivered

vars == <<phase, config, workspaceFolders, watchers, live, reloads,
          recentlySavedByVSCode, timers, sinceSave, tasks, statusBarItems,
          items, echo, lastEvent>>

----------------------------------------------------------------------------
(* Bounds of the model *)

MaxWatchers == 4
MaxReloads == 2
MaxTimers == 2
MaxTasks == 2
TimeStep == 250
MaxLen == 4

(* Program constant: the delay of the removal timer, in ms *)

SaveWindow == 500

----------------------------------------------------------------------------
(* Inputs: paths, action objects, watcher declarations, configurations *)

\* documents the editor may save, and those in the scope of the watchers
Paths == {"a.txt", "b.txt"}
Watched == {"a.txt"}

Never == 0 - 1
NoEvent == [kind |-> "none", started |-> <<>>, busy |-> FALSE]

ActShow     == [showStatusBarItem |-> "build", text |-> "Building"]
ActRemove   == [removeStatusBarItem |-> "build"]
ActNotify   == [notify |-> <<"changed">>, openLabel |-> "Open"]
ActAutoSave == [autoSave |-> TRUE]

\* README lines 55-71: react to external saves only, notify and save
DExternal == [name |-> "external", path |-> <<"dir">>,
              triggerOnVSCodeSave |-> FALSE, triggerOnExternalSave |-> TRUE,
              onChange |-> <<ActNotify, ActAutoSave>>]
\* status bar declaration in the style of README lines 96-113, no path,
\* trigger flags left to their defaults
DStatus   == [name |-> "status",
              onCreate |-> <<ActShow>>,
              onDelete |-> <<ActNotify, ActRemove>>]
\* both trigger flags switched off
DMuted    == [name |-> "muted", path |-> <<"dir">>,
              triggerOnVSCodeSave |-> FALSE, triggerOnExternalSave |-> FALSE,
              onChange |-> <<ActNotify, ActShow>>]

\* a configuration holds the keys that are set: "watchers" and/or "notify"
CfgNone   == [id |-> "none"]
CfgList   == [id |-> "list", watchers |-> <<DExternal, DStatus>>, notify |-> DMuted]
CfgLegacy == [id |-> "legacy", watchers |-> <<>>, notify |-> DStatus]
CfgMuted  == [id |-> "muted", watchers |-> <<DMuted>>]
Configs   == {CfgNone, CfgList, CfgLegacy, CfgMuted}

\* README lines 18-19: one declaration for each setting of the two trigger
\* flags; every list shows a status bar item of its own
DBoth     == [name |-> "both",
              onChange |-> <<[showStatusBarItem |-> "both"]>>]
DEditor   == [name |-> "editor", triggerOnExternalSave |-> FALSE,
              onCreate |-> <<[showStatusBarItem |-> "made"]>>,
              onChange |-> <<[showStatusBarItem |-> "editor"]>>]
DOutside  == [name |-> "outside", triggerOnVSCodeSave |-> FALSE,
              onChange |-> <<[showStatusBarItem |-> "outside"]>>]
DQuiet    == [name |-> "quiet",
              triggerOnVSCodeSave |-> FALSE, triggerOnExternalSave |-> FALSE,
              onChange |-> <<[showStatusBarItem |-> "quiet"]>>,
              onDelete |-> <<[showStatusBarItem |-> "gone"]>>]
CfgFlags  == [id |-> "flags", watchers |-> <<DBoth, DEditor, DOutside, DQuiet>>]

\* action lists that go on after an autoSave and after the removal of an
\* item nothing has shown ("idle", and the name of an inherited property)
DSave     == [name |-> "save", onChange |-> <<ActAutoSave, ActShow>>]
DClear    == [name |-> "clear",
              onCreate |-> <<[removeStatusBarItem |-> "toString"], ActShow>>,
              onDelete |-> <<[removeStatusBarItem |-> "idle"], ActShow>>]
CfgLists  == [id |-> "lists", watchers |-> <<DSave, DClear>>]

\* action objects with more than one of the keys that actions() reads
DMixed    == [name |-> "mixed",
              onCreate |-> <<[showStatusBarItem |-> "build", text |-> "Building",
                              autoSave |-> TRUE]>>,
              onDelete |-> <<[removeStatusBarItem |-> "build", notify |-> <<"gone">>]>>]
CfgMixed  == [id |-> "mixed", watchers |-> <<DMixed>>]

\* elements of a watchers list that are no objects: null, and a string
\* (which has none of the properties createWatcher reads)
JNull     == [json |-> "null"]
JString   == [json |-> "string"]
CfgNullAfter   == [id |-> "nullAfter", watchers |-> <<DStatus, JNull>>]
CfgStringAfter == [id |-> "stringAfter", watchers |-> <<DStatus, JString>>]

\* the workspace has one folder open, or none, or two; a.txt lies in the
\* folder proj and out.log in no folder of the workspace
OneFolder == <<"proj">>
NoFolder  == <<>>
TwoFolders == <<"lib", "proj">>
Inside    == {<<"proj", "a.txt">>}
Files     == {"a.txt", "out.log"}

\* line 149: variableSubstitution called without its third argument
NoFile == "undefined"

\* A text is a sequence of tokens: a token is a placeholder or literal text.
\* line 213: the tokens in which indexOf finds the opening of a placeholder
Placeholders ==
  {"${pathSeparator}", "${userHome}", "${env:HOME}", "${env:A}", "${env:B}",
   "${env:S}", "${env:C}", "${env:G}", "${env:NONE}", "${workspaceFolder}",
   "${workspaceFolder:lib}", "${workspaceFolderBasename}", "${file}",
   "${relativeFile}"}

\* process.env: HOME is plain, C refers to HOME, A and B refer to each
\* other, S is its own placeholder, G has its own placeholder after some
\* text, NONE is not set (line 115: the empty string)
ProcessEnv ==
  "${env:HOME}" :> <<"home">> @@ "${env:C}" :> <<"${env:HOME}">> @@
  "${env:A}" :> <<"${env:B}">> @@ "${env:B}" :> <<"${env:A}">> @@
  "${env:S}" :> <<"${env:S}">> @@ "${env:G}" :> <<"x", "${env:G}">> @@
  "${env:NONE}" :> <<>>

\* the fallback token of lines 23 and 123
Unknown == "Unknown"

\* values of the path property of a watcher declaration
PathTemplates ==
  {<<"${env:A}">>, <<"${env:S}">>, <<"${env:G}">>, <<"${env:C}", "${env:NONE}">>,
   <<"${userHome}", "${pathSeparator}", "logs">>,
   <<"${workspaceFolder}", "${file}", "${env:HOME}">>,
   <<"${workspaceFolder:lib}", "${env:HOME}">>}
DPath(p)   == [name |-> "path", path |-> p, onCreate |-> <<ActShow>>]
CfgPath(p) == [id |-> "path", watchers |-> <<DPath(p)>>]

\* the folder-owning variables, in the path of a watcher and in the
\* texts of its notifications
DTell     == [name |-> "tell", path |-> <<"${workspaceFolder}">>,
              onCreate |-> <<[notify |-> <<"${workspaceFolder}", "${relativeFile}">>]>>,
              onDelete |-> <<[notify |-> <<"${workspaceFolderBasename}">>]>>]
CfgTell   == [id |-> "tell", watchers |-> <<DTell>>]

Kinds == {"create", "change", "delete"}

----------------------------------------------------------------------------
(* Utility helpers *)

Has(obj, prop) == prop \in DOMAIN obj

getProperty(obj, prop, deflt) == IF Has(obj, prop) THEN obj[prop] ELSE deflt

Min(a, b) == IF a <= b THEN a ELSE b

One(x) == SetToBag({x})

----------------------------------------------------------------------------
(* The state a handler reads and writes, as one record *)

Cur == [watchers |-> watchers, live |-> live, reloads |-> reloads,
        recentlySavedByVSCode |-> recentlySavedByVSCode, timers |-> timers,
        sinceSave |-> sinceSave, tasks |-> tasks,
        statusBarItems |-> statusBarItems, items |-> items, echo |-> echo,
        started |-> <<>>, ended |-> <<>>, folders |-> workspaceFolders]

Commit(st) ==
  /\ watchers' = st.watchers
  /\ live' = st.live
  /\ reloads' = st.reloads
  /\ recentlySavedByVSCode' = st.recentlySavedByVSCode
  /\ timers' = st.timers
  /\ sinceSave' = st.sinceSave
  /\ tasks' = st.tasks
  /\ statusBarItems' = st.statusBarItems
  /\ items' = st.items
  /\ echo' = st.echo

----------------------------------------------------------------------------
(* Watcher lifecycle *)

UsedIds(st) ==
  {st.live[k].id : k \in 1..Len(st.live)}
    \cup {st.watchers[k].id : k \in 1..Len(st.watchers)}
    \cup {t.w.id : t \in BagToSet(st.tasks)}

FreeIds(st) == (1..MaxWatchers) \ UsedIds(st)

\* the identity of the next watcher object: the least id no live watcher,
\* registry entry or running action list refers to
FreshId(st) == CHOOSE i \in FreeIds(st) : \A j \in FreeIds(st) : i <= j

\* a disposal that also disposes and forgets the cached status bar items
disposeWatchersAndItems(st) ==
  LET gone == {st.watchers[k].id : k \in 1..Len(st.watchers)}
  IN [st EXCEPT !.live = SelectSeq(st.live, LAMBDA w : w.id \notin gone),
                !.watchers = <<>>,
                !.statusBarItems = {},
                !.items = EmptyBag]

\* lines 357-363: dispose every entry of the registry, then empty it
disposeWatchers(st) ==
  LET gone == {st.watchers[k].id : k \in 1..Len(st.watchers)}
  IN [st EXCEPT !.live = SelectSeq(st.live, LAMBDA w : w.id \notin gone),
                !.watchers = <<>>]

----------------------------------------------------------------------------
(* Variable substitution *)

\* line 213
HasPlaceholder(text) == \E k \in 1..Len(text) : text[k] \in Placeholders

\* line 23: errorMessage shows the message and returns the fallback token
errorMessage(msg) == [val |-> <<Unknown>>, diags |-> {msg}]

\* line 71: vscode.workspace.getWorkspaceFolder(uri): the open folder that
\* contains the file, if there is one (the folders here are not nested)
getWorkspaceFolder(folders, uri) ==
  LET inside == SelectSeq(folders, LAMBDA f : <<f, uri>> \in Inside)
  IN IF inside = <<>> THEN <<>> ELSE <<Head(inside)>>

\* lines 62-76: the folder handed to the callback, as a text of one token
\* (the name of a folder stands for its path and for its basename); uri
\* is NoFile when the caller has no file, as createWatcher
URIWorkspaceFolder(folders, uri) ==
  IF folders = <<>> THEN errorMessage("No folder open")
  ELSE IF Len(folders) > 1 /\ uri = NoFile
  THEN errorMessage("Use the name of the Workspace Folder")
  ELSE LET wsf == IF Len(folders) > 1 THEN getWorkspaceFolder(folders, uri)
                  ELSE <<>>
       IN [val |-> IF wsf = <<>> THEN <<folders[1]>> ELSE wsf, diags |-> {}]

\* lines 82-92 and 121-125
getNamedWorkspaceFolder(folders, name) ==
  IF \E k \in 1..Len(folders) : folders[k] = name
  THEN [val |-> <<name>>, diags |-> {}]
  ELSE errorMessage("Workspace not found with name")

\* line 45: String.replace puts the replacement in the place of every
\* match and does not search the text it has put in
RECURSIVE Replaced(_, _)
Replaced(text, replacement) ==
  IF text = <<>> THEN <<>>
  ELSE (IF Head(text) \in DOMAIN replacement THEN replacement[Head(text)].val
        ELSE <<Head(text)>>)
       \o Replaced(Tail(text), replacement)

\* lines 42-54: variableReplace on the result so far.  replacement gives,
\* for each token the pattern matches, what the callback returns and the
\* messages it shows; the callback runs once for every match.
variableReplace(result, replacement) ==
  CHOOSE out \in
    {[text |-> Replaced(r.text, f),
      diags |-> r.diags \cup
                UNION {f[r.text[k]].diags :
                         k \in {i \in 1..Len(r.text) : r.text[i] \in DOMAIN f}}] :
       r \in {result}, f \in {replacement}} : TRUE

\* lines 113-116
EnvValue == [tok \in DOMAIN ProcessEnv |-> [val |-> ProcessEnv[tok], diags |-> {}]]

\* lines 113-133: the environment and the workspace folder variables
envAndFolders(result, folders, uri) ==
  variableReplace(
    variableReplace(
      variableReplace(
        variableReplace(result, EnvValue),
        "${workspaceFolder}" :> URIWorkspaceFolder(folders, uri)),
      "${workspaceFolder:lib}" :> getNamedWorkspaceFolder(folders, "lib")),
    "${workspaceFolderBasename}" :> URIWorkspaceFolder(folders, uri))

\* lines 106-111: ${userHome} is the result of the function itself on
\* ${env:HOME}
UserHome(folders, uri) ==
  CHOOSE home \in
    {[val |-> h.text, diags |-> h.diags] :
       h \in {envAndFolders([text |-> <<"${env:HOME}">>, diags |-> {}],
                            folders, uri)}} : TRUE

\* lines 101-136
variableSubstitutionSync_1(text, folders, uri) ==
  envAndFolders(
    variableReplace(
      variableReplace([text |-> text, diags |-> {}],
                      "${pathSeparator}" :> [val |-> <<"/">>, diags |-> {}]),
      "${userHome}" :> UserHome(folders, uri)),
    folders, uri)

\* lines 167-173: the file relative to the folder URIWorkspaceFolder hands
\* over, or the fallback token when the file is not under that folder
RelativeFile(folders, uri) ==
  CHOOSE rel \in
    {[val |-> IF \E k \in 1..Len(wsf.val) : <<wsf.val[k], uri>> \in Inside
              THEN <<uri>> ELSE <<Unknown>>,
      diags |-> wsf.diags] : wsf \in {URIWorkspaceFolder(folders, uri)}} : TRUE

\* lines 153-206: one pass; without a file it ends after the
\* file-independent variables (line 160), with one it goes on to ${file}
\* and ${relativeFile} (lines 162-174)
stringSubstitution(text, folders, uri) ==
  IF uri = NoFile THEN variableSubstitutionSync_1(text, folders, uri)
  ELSE variableReplace(
         variableReplace(variableSubstitutionSync_1(text, folders, uri),
                         "${file}" :> [val |-> <<uri>>, diags |-> {}]),
         "${relativeFile}" :> RelativeFile(folders, uri))

\* lines 211-215: stringSubstitutionDepthN up to its await: the first or
\* the next pass over the text, if it has a placeholder
stringSubstitutionDepthN(text, diags, folders, uri) ==
  IF HasPlaceholder(text)
  THEN LET r == stringSubstitution(text, folders, uri)
       IN [text |-> text, next |-> r.text, diags |-> diags \cup r.diags]
  ELSE [text |-> text, next |-> text, diags |-> diags]

\* lines 216-219: the pass made no change, or no placeholder is left
Resolved(r) == r.next = r.text \/ ~HasPlaceholder(r.next)

\* lines 149-222: variableSubstitution from its call to its result, for
\* the texts whose resolution comes to an end
RECURSIVE Passes(_, _, _)
Passes(r, folders, uri) ==
  IF Resolved(r) THEN r
  ELSE Passes(stringSubstitutionDepthN(r.next, r.diags, folders, uri), folders, uri)

variableSubstitution(text, folders, uri) ==
  Passes(stringSubstitutionDepthN(text, {}, folders, uri), folders, uri)

\* a createWatcher that does not push what it has created
createWatcherTailUnrecorded(st, decl, scope, diags) ==
  LET w == [id |-> FreshId(st), decl |-> decl, scope |-> scope, diags |-> diags]
  IN [st EXCEPT !.live = Append(st.live, w)]

\* lines 391-424: the part of createWatcher after the path is expanded:
\* create the file system watcher, subscribe, push the registry entry
createWatcherTail(st, decl, scope, diags) ==
  LET w == [id |-> FreshId(st), decl |-> decl, scope |-> scope, diags |-> diags]
  IN [st EXCEPT !.live = Append(st.live, w),
                !.watchers = Append(st.watchers, w)]

\* line 9: obj.hasOwnProperty throws a TypeError when obj is null
IsNull(obj) == Has(obj, "json") /\ obj.json = "null"

\* lines 381-389: createWatcher up to its first await.  With a path the
\* call suspends in variableSubstitution; without one it runs to its end
\* and the caller suspends on the returned promise.  On null the first
\* getProperty (line 382) throws: the call and with it the reload that
\* awaits it (lines 447, 455) are rejected and nothing is left to resume.
createWatcherHead(st, todo) ==
  IF IsNull(Head(todo)) THEN st
  ELSE IF Has(Head(todo), "path")
  THEN LET r == stringSubstitutionDepthN(Head(todo).path, {}, st.folders, NoFile)
       IN [st EXCEPT !.reloads = @ (+) One([todo |-> todo, pc |-> "subst",
                                             text |-> r.text, next |-> r.next,
                                             diags |-> r.diags])]
  ELSE LET s1 == createWatcherTail(st, Head(todo), <<>>, {})
       IN [s1 EXCEPT !.reloads = @ (+) One([todo |-> todo, pc |-> "created"])]

\* lines 443-456: which declarations a configuration yields
WatcherConfigs(cfg) ==
  IF Has(cfg, "watchers") /\ Len(cfg.watchers) > 0 THEN cfg.watchers
  ELSE IF Has(cfg, "notify") THEN <<cfg.notify>>
  ELSE <<>>

\* lines 439-457: updateConfiguration up to its first await
updateConfiguration(st, cfg) ==
  LET s1 == disposeWatchers(st)
      todo == WatcherConfigs(cfg)
  IN IF todo = <<>> THEN s1 ELSE createWatcherHead(s1, todo)

\* the continuation of a suspended updateConfiguration
resumeReload(st, r) ==
  LET s0 == [st EXCEPT !.reloads = @ (-) One(r)]
  IN IF r.pc = "subst" /\ Resolved(r)
     THEN LET s1 == createWatcherTail(s0, Head(r.todo), r.next, r.diags)
          IN [s1 EXCEPT !.reloads = @ (+) One([todo |-> r.todo, pc |-> "created"])]
     ELSE IF r.pc = "subst"
     THEN LET n == stringSubstitutionDepthN(r.next, r.diags, st.folders, NoFile)
          IN [s0 EXCEPT !.reloads = @ (+) One([todo |-> r.todo, pc |-> "subst",
                                               text |-> n.text, next |-> n.next,
                                               diags |-> n.diags])]
     ELSE IF Tail(r.todo) = <<>> THEN s0
          ELSE createWatcherHead(s0, Tail(r.todo))

\* whether the continuation of reload r creates a watcher
Creates(r) ==
  \/ r.pc = "subst"
  \/ /\ r.pc = "created"
     /\ Tail(r.todo) # <<>>
     /\ ~IsNull(Head(Tail(r.todo)))
     /\ ~Has(Head(Tail(r.todo)), "path")

----------------------------------------------------------------------------
(* Save-origin tracking *)

\* lines 476-479: the onDidSaveTextDocument listener: add the path and
\* schedule its removal SaveWindow ms later
onDidSaveTextDocument(st, p) ==
  [st EXCEPT !.recentlySavedByVSCode = @ \cup {p},
             !.timers = Append(@, [path |-> p, remaining |-> SaveWindow]),
             !.sinceSave = [@ EXCEPT ![p] = 0]]

\* a timer callback that fires and leaves the set as it is
timerCallbackKeeps(st) == [st EXCEPT !.timers = Tail(@)]

\* line 478: the timer callback deletes the path, whoever added it
timerCallback(st) ==
  [st EXCEPT !.recentlySavedByVSCode = @ \ {Head(st.timers).path},
             !.timers = Tail(@)]

\* time since the last internal save, kept exact up to SaveWindow
Elapsed(a, d) ==
  IF a = Never THEN Never
  ELSE IF a + d > SaveWindow THEN SaveWindow + 1 ELSE a + d

----------------------------------------------------------------------------
(* Action executor *)

HandlerKey(kind) ==
  CASE kind = "create" -> "onCreate"
    [] kind = "change" -> "onChange"
    [] kind = "delete" -> "onDelete"

ActionList(t) == t.w.decl[HandlerKey(t.kind)]

Suspend(m, op) ==
  [m EXCEPT !.t.wait = op,
            !.t.inflight = @ \cup {[idx |-> m.t.pos, op |-> op]},
            !.t.fx = IF op \in {"subst", "load"} THEN Append(@, <<m.t.pos, op>>) ELSE @]

Completed(m) == [m EXCEPT !.t.inflight = @ \ {[idx |-> m.t.pos, op |-> m.t.wait]}]

\* line 331: the cache is a plain object, so statusBarItems[id] also finds
\* the properties every object inherits; they are no status bar items
InheritedKeys == {"toString"}

\* line 233: the lookup finds an own entry or an inherited property
Found(m, id) == id \in m.sb \/ id \in InheritedKeys

\* a lookup that creates an item on every call
getStatusBarItemAnew(m, id) ==
  [m EXCEPT !.sb = @ \cup {id}, !.items = @ (+) One(id),
            !.t.fx = Append(@, <<m.t.pos, "create">>)]

\* lines 232-240: the cached item, or a new item that is created and cached
getStatusBarItem(m, id) ==
  IF Found(m, id) THEN m
  ELSE [m EXCEPT !.sb = @ \cup {id}, !.items = @ (+) One(id),
                 !.t.fx = Append(@, <<m.t.pos, "create">>)]

\* a call of a method that what the lookup returned does not have
Throw(m) == [m EXCEPT !.t.wait = "failed"]

\* lines 264-278: showStatusBarItem sets the fields given and shows the item
showStatusBarItemBranch(m, id) ==
  LET m1 == getStatusBarItem(m, id)
  IN IF id \notin m1.sb THEN Throw(m1)
     ELSE [m1 EXCEPT !.t.fx = Append(@, <<m.t.pos, "show">>)]

\* lines 282-288: removeStatusBarItem hides, disposes and uncaches the item
removeStatusBarItemBranch(m, id) ==
  LET m1 == getStatusBarItem(m, id)
  IN IF id \notin m1.sb THEN Throw(m1)
     ELSE [m1 EXCEPT !.sb = @ \ {id}, !.items = @ (-) One(id),
                     !.t.fx = Append(@, <<m.t.pos, "remove">>)]

\* lines 258-326: the loop of actions(), run from branch `stage` of the
\* action object at m.t.pos to the next await (or to the end of the list).
\* Branches of one object: 1 showStatusBarItem, 2 removeStatusBarItem,
\* 3 notify, 4 autoSave.
RECURSIVE Run(_, _)
Run(m, stage) ==
  IF m.t.pos > Len(ActionList(m.t)) THEN [m EXCEPT !.t.wait = "done"]
  ELSE
    LET a == ActionList(m.t)[m.t.pos]
    IN CASE stage = 1 ->
              IF Has(a, "showStatusBarItem")
              THEN LET m1 == showStatusBarItemBranch(m, a.showStatusBarItem)
                   IN IF m1.t.wait = "failed" THEN m1 ELSE Run(m1, 2)
              ELSE Run(m, 2)
         [] stage = 2 ->
              IF Has(a, "removeStatusBarItem")
              THEN LET m1 == removeStatusBarItemBranch(m, a.removeStatusBarItem)
                   IN IF m1.t.wait = "failed" THEN m1 ELSE Run(m1, 3)
              ELSE Run(m, 3)
         [] stage = 3 ->
              \* line 298: await variableSubstitution(notify, args, uri)
              IF Has(a, "notify") THEN Suspend(m, "subst") ELSE Run(m, 4)
         [] stage = 4 ->
              \* line 318: await openTextDocument(uri)
              IF Has(a, "autoSave") /\ a.autoSave THEN Suspend(m, "load")
              ELSE Run([m EXCEPT !.t.pos = @ + 1], 1)

\* a notification shown without awaiting the user's response
ShowNotificationNoAwait(m) == Run(Suspend(Completed(m), "notify"), 4)

\* lines 298-302: the text of the notification is resolved with the file
\* of the event; show the notification and await the user's response
ShowNotification(m) ==
  LET r == variableSubstitution(ActionList(m.t)[m.t.pos].notify, m.folders, m.t.uri)
  IN [Suspend(Completed(m), "notify") EXCEPT !.t.msg = r.next, !.t.said = r.diags]

\* lines 303-307: the response arrived; a click on the label opens the file
AfterNotify(m, clicked) ==
  IF clicked THEN Suspend(Completed(m), "open") ELSE Run(Completed(m), 4)

\* lines 305-306: no try/catch here, a failure rejects the whole call
AfterOpen(m, ok) ==
  IF ok THEN Suspend(Completed(m), "showDoc")
  ELSE [Completed(m) EXCEPT !.t.wait = "failed"]

AfterShowDoc(m, ok) ==
  IF ok THEN Run(Completed(m), 4)
  ELSE [Completed(m) EXCEPT !.t.wait = "failed"]

\* lines 321-323: a failure of the load or of the save is caught and
\* reported with an error message that is not awaited
reportError(m) == [m EXCEPT !.t.fx = Append(@, <<m.t.pos, "error">>)]

\* a failure of the load that is not caught
AfterLoadThrows(m, ok) ==
  IF ok THEN Suspend(Completed(m), "save") ELSE Throw(Completed(m))

\* lines 316-320: the document is loaded, then saved
AfterLoad(m, ok) ==
  IF ok THEN Suspend(Completed(m), "save")
  ELSE Run([reportError(Completed(m)) EXCEPT !.t.pos = @ + 1], 1)

AfterSave(m, ok) ==
  IF ok THEN Run([Completed(m) EXCEPT !.t.pos = @ + 1], 1)
  ELSE Run([reportError(Completed(m)) EXCEPT !.t.pos = @ + 1], 1)

\* the continuation of a suspended list, given the outcome of the
\* operation it awaits
Continue(m, outcome) ==
  CASE m.t.wait = "subst"   -> ShowNotification(m)
    [] m.t.wait = "notify"  -> AfterNotify(m, outcome = "click")
    [] m.t.wait = "open"    -> AfterOpen(m, outcome = "ok")
    [] m.t.wait = "showDoc" -> AfterShowDoc(m, outcome = "ok")
    [] m.t.wait = "load"    -> AfterLoad(m, outcome = "ok")
    [] m.t.wait = "save"    -> AfterSave(m, outcome # "fail")

Outcomes(wait) ==
  CASE wait = "subst"  -> {"ok"}
    [] wait = "notify" -> {"click", "dismiss"}
    [] wait = "save"   -> {"saved", "clean", "fail"}
    [] OTHER           -> {"ok", "fail"}

Ended(t) == t.wait \in {"done", "failed"}

\* suspended on the user or on a document operation of the host
AwaitsHost(t) == t.wait \in {"notify", "open", "showDoc", "load", "save"}

\* list t has run to m.t: suspended again, or ended
Settle(st, t, m) ==
  [st EXCEPT !.statusBarItems = m.sb,
             !.items = m.items,
             !.tasks = IF Ended(m.t) THEN @ (-) One(t)
                       ELSE (@ (-) One(t)) (+) One(m.t),
             !.ended = IF Ended(m.t) THEN Append(@, m.t) ELSE @]

IsLive(st, w) == \E k \in 1..Len(st.live) : st.live[k] = w

resumeTask(st, t, outcome) ==
  LET \* line 320: a save that wrote the file makes the host fire
      \* onDidSaveTextDocument before save() resolves
      \* and the file watchers report the change of the file later
      s1 == IF t.wait = "save" /\ outcome = "saved"
            THEN [onDidSaveTextDocument(st, t.uri) EXCEPT !.echo = @ \cup {t.uri}]
            ELSE st
      \* history: the list is resumed after its watcher was disposed
      t1 == [t EXCEPT !.orphan = @ \/ ~IsLive(st, t.w)]
  IN Settle(s1, t, Continue([t |-> t1, sb |-> s1.statusBarItems, items |-> s1.items,
                             folders |-> st.folders], outcome))

\* lines 258-259: a call of actions(uri, list, statusBarItems) by a handler
\* of watcher w; it runs to its first await before the handler returns
StartActions(st, w, kind, uri) ==
  LET t0 == [w |-> w, kind |-> kind, uri |-> uri, pos |-> 1, wait |-> "run",
             inflight |-> {}, fx |-> <<>>, orphan |-> FALSE,
             msg |-> <<>>, said |-> {}]
      m == Run([t |-> t0, sb |-> st.statusBarItems, items |-> st.items,
                folders |-> st.folders], 1)
  IN [st EXCEPT !.statusBarItems = m.sb,
                !.items = m.items,
                !.tasks = IF Ended(m.t) THEN @ ELSE @ (+) One(m.t),
                !.started = Append(@, w),
                !.ended = IF Ended(m.t) THEN Append(@, m.t) ELSE @]

----------------------------------------------------------------------------
(* File events *)

\* lines 408-409: both flags default to true
TriggerFlag(decl, key) == getProperty(decl, key, TRUE)

\* lines 412-422: a listener is registered for the kinds that have a list
Subscribed(decl, kind) == Has(decl, HandlerKey(kind))

\* a listener that lets an event go while another list awaits the host
onDidChangeSerial(st, w, uri) ==
  LET savedByVSCode == uri \in st.recentlySavedByVSCode
  IN IF \E t \in BagToSet(st.tasks) : AwaitsHost(t) THEN st
     ELSE IF savedByVSCode /\ ~TriggerFlag(w.decl, "triggerOnVSCodeSave") THEN st
     ELSE IF ~savedByVSCode /\ ~TriggerFlag(w.decl, "triggerOnExternalSave") THEN st
     ELSE StartActions(st, w, "change", uri)

\* a listener that tests each origin against the flag of the other one
onDidChangeSwapped(st, w, uri) ==
  LET savedByVSCode == uri \in st.recentlySavedByVSCode
  IN IF savedByVSCode /\ ~TriggerFlag(w.decl, "triggerOnExternalSave") THEN st
     ELSE IF ~savedByVSCode /\ ~TriggerFlag(w.decl, "triggerOnVSCodeSave") THEN st
     ELSE StartActions(st, w, "change", uri)

\* lines 413-419: the onDidChange listener
onDidChange(st, w, uri) ==
  LET savedByVSCode == uri \in st.recentlySavedByVSCode
  IN IF savedByVSCode /\ ~TriggerFlag(w.decl, "triggerOnVSCodeSave") THEN st
     ELSE IF ~savedByVSCode /\ ~TriggerFlag(w.decl, "triggerOnExternalSave") THEN st
     ELSE StartActions(st, w, "change", uri)

\* listeners that apply the save-origin filter to every kind of event
ListenerFiltersAll(st, w, kind, uri) ==
  IF ~Subscribed(w.decl, kind) THEN st
  ELSE LET s1 == onDidChange(st, w, uri)
       IN IF s1 = st THEN st ELSE StartActions(st, w, kind, uri)

\* lines 412-422: the listener of watcher w for an event of this kind
Listener(st, w, kind, uri) ==
  IF ~Subscribed(w.decl, kind) THEN st
  ELSE IF kind = "change" THEN onDidChange(st, w, uri)
  ELSE StartActions(st, w, kind, uri)

\* one physical file event, delivered to the live watchers in the order
\* of their creation
RECURSIVE Deliver(_, _, _, _)
Deliver(st, ws, kind, uri) ==
  IF ws = <<>> THEN st
  ELSE Deliver(Listener(st, Head(ws), kind, uri), Tail(ws), kind, uri)

----------------------------------------------------------------------------
(* Actions *)

Init ==
  /\ phase = "loaded"
  /\ config \in Configs
  /\ workspaceFolders = OneFolder
  /\ watchers = <<>>
  /\ live = <<>>
  /\ reloads = EmptyBag
  /\ recentlySavedByVSCode = {}
  /\ timers = <<>>
  /\ sinceSave = [p \in Paths |-> Never]
  /\ tasks = EmptyBag
  /\ statusBarItems = {}
  /\ items = EmptyBag
  /\ echo = {}
  /\ lastEvent = NoEvent

\* the state after the module is loaded, for a configuration out of cfgs
InitIn(cfgs) ==
  /\ phase = "loaded"
  /\ config \in cfgs
  /\ workspaceFolders = OneFolder
  /\ watchers = <<>>
  /\ live = <<>>
  /\ reloads = EmptyBag
  /\ recentlySavedByVSCode = {}
  /\ timers = <<>>
  /\ sinceSave = [p \in Paths |-> Never]
  /\ tasks = EmptyBag
  /\ statusBarItems = {}
  /\ items = EmptyBag
  /\ echo = {}
  /\ lastEvent = NoEvent

\* lines 468-482: activate registers the two listeners and calls
\* updateConfiguration
Activate ==
  /\ phase = "loaded"
  /\ phase' = "active"
  /\ Commit(updateConfiguration(Cur, config))
  /\ lastEvent' = NoEvent
  /\ UNCHANGED <<config, workspaceFolders>>

\* lines 469-472: the configuration changes and the listener reloads
ConfigChange(cfg) ==
  /\ phase = "active"
  /\ BagCardinality(reloads) < MaxReloads
  /\ Len(WatcherConfigs(cfg)) > 0 => FreeIds(disposeWatchers(Cur)) # {}
  /\ config' = cfg
  /\ Commit(updateConfiguration(Cur, cfg))
  /\ lastEvent' = NoEvent
  /\ UNCHANGED <<phase, workspaceFolders>>

ReloadResume(r) ==
  /\ r \in BagToSet(reloads)
  /\ Creates(r) => FreeIds(Cur) # {}
  /\ r.pc = "subst" => Len(r.next) <= MaxLen
  /\ Commit(resumeReload(Cur, r))
  /\ lastEvent' = NoEvent
  /\ UNCHANGED <<phase, config, workspaceFolders>>

\* lines 488-490; the host then disposes context.subscriptions (line 465)
Deactivate ==
  /\ phase = "active"
  /\ phase' = "deactivated"
  /\ Commit(disposeWatchers(Cur))
  /\ lastEvent' = NoEvent
  /\ UNCHANGED <<config, workspaceFolders>>

\* lines 476-479: the editor saved a document
InternalSave(p) ==
  /\ phase = "active"
  /\ Len(timers) < MaxTimers
  /\ Commit(onDidSaveTextDocument(Cur, p))
  /\ lastEvent' = NoEvent
  /\ UNCHANGED <<phase, config, workspaceFolders>>

\* line 478: a removal timer is due
TimerFire ==
  /\ timers # <<>>
  /\ Head(timers).remaining = 0
  /\ Commit(timerCallback(Cur))
  /\ lastEvent' = NoEvent
  /\ UNCHANGED <<phase, config, workspaceFolders>>

\* time passes, never beyond the moment the next timer is due
Tick ==
  /\ timers # <<>> => Head(timers).remaining > 0
  /\ LET d == IF timers = <<>> THEN TimeStep
              ELSE Min(TimeStep, Head(timers).remaining)
     IN /\ timers' = [k \in 1..Len(timers) |->
                        [timers[k] EXCEPT !.remaining = @ - d]]
        /\ sinceSave' = [p \in Paths |-> Elapsed(sinceSave[p], d)]
  /\ lastEvent' = NoEvent
  /\ UNCHANGED <<phase, config, workspaceFolders, watchers, live, reloads,
                 recentlySavedByVSCode, tasks, statusBarItems, items, echo>>

\* the host reports one file event to the live watchers
FileEvent(kind, uri) ==
  /\ phase # "loaded"
  /\ LET st == Deliver(Cur, live, kind, uri)
     IN /\ BagCardinality(st.tasks) <= MaxTasks
        /\ Commit(st)
        /\ lastEvent' = [kind |-> kind, uri |-> uri, started |-> st.started,
                          busy |-> \E t \in BagToSet(tasks) : AwaitsHost(t),
                          ended |-> st.ended]
  /\ UNCHANGED <<phase, config, workspaceFolders>>

\* the host reports the change of a file that an autoSave has written
SaveEcho(uri) ==
  /\ uri \in echo
  /\ LET st == Deliver([Cur EXCEPT !.echo = @ \ {uri}], live, "change", uri)
     IN /\ BagCardinality(st.tasks) <= MaxTasks
        /\ Commit(st)
        /\ lastEvent' = [kind |-> "change", uri |-> uri, started |-> st.started,
                          busy |-> \E t \in BagToSet(tasks) : AwaitsHost(t),
                          ended |-> st.ended, echo |-> TRUE]
  /\ UNCHANGED <<phase, config, workspaceFolders>>

\* the operation a suspended action list awaits completes
TaskResume(t, outcome) ==
  /\ t \in BagToSet(tasks)
  /\ outcome \in Outcomes(t.wait)
  /\ (t.wait = "save" /\ outcome = "saved") => Len(timers) < MaxTimers
  /\ LET st == resumeTask(Cur, t, outcome)
     IN /\ Commit(st)
        /\ lastEvent' = IF st.ended = <<>> THEN NoEvent
                         ELSE [kind |-> "ended", started |-> <<>>, busy |-> FALSE,
                               list |-> Head(st.ended),
                               failed |-> IF outcome # "fail" THEN "none"
                                          ELSE IF t.wait \in {"load", "save"}
                                          THEN "autoSave" ELSE "open"]
  /\ UNCHANGED <<phase, config, workspaceFolders>>

Next ==
  \/ Activate
  \/ \E cfg \in Configs : ConfigChange(cfg)
  \/ \E r \in BagToSet(reloads) : ReloadResume(r)
  \/ Deactivate
  \/ \E p \in Paths : InternalSave(p)
  \/ TimerFire
  \/ Tick
  \/ \E kind \in Kinds, uri \in Watched : FileEvent(kind, uri)
  \/ \E uri \in Watched : SaveEcho(uri)
  \/ \E t \in BagToSet(tasks) : \E o \in Outcomes(t.wait) : TaskResume(t, o)

Spec == Init /\ [][Next]_vars

\* The watcher registry alone: reloads, shutdown and create events (no
\* declaration of Configs has an asynchronous onCreate list)
NextReload ==
  \/ Activate
  \/ \E cfg \in Configs : ConfigChange(cfg)
  \/ \E r \in BagToSet(reloads) : ReloadResume(r)
  \/ Deactivate
  \/ \E uri \in Watched : FileEvent("create", uri)

SpecReload == Init /\ [][NextReload]_vars

\* Save-origin tracking under one configuration, read at activation; the
\* editor saves the documents in the scope of the watchers
NextSave ==
  \/ Activate
  \/ \E r \in BagToSet(reloads) : ReloadResume(r)
  \/ \E p \in Watched : InternalSave(p)
  \/ TimerFire
  \/ Tick
  \/ \E uri \in Watched : FileEvent("change", uri)
  \/ \E t \in BagToSet(tasks) : \E o \in Outcomes(t.wait) : TaskResume(t, o)

SpecSave == Init /\ [][NextSave]_vars

\* The action executor: every event, with reloads to the empty
\* configuration.  An autoSave finds the document clean or fails; the saves
\* that write are followed under SpecSave.
NextExec ==
  \/ Activate
  \/ ConfigChange(CfgNone)
  \/ \E r \in BagToSet(reloads) : ReloadResume(r)
  \/ Deactivate
  \/ \E kind \in Kinds, uri \in Watched : FileEvent(kind, uri)
  \/ \E t \in BagToSet(tasks) :
       \E o \in Outcomes(t.wait) \ {"saved"} : TaskResume(t, o)

SpecExec == Init /\ [][NextExec]_vars

\* The trigger flags: one watcher for each setting of the flags, editor
\* saves, timers and every kind of file event
InitFlags == InitIn({CfgFlags})

NextFlags ==
  \/ Activate
  \/ \E r \in BagToSet(reloads) : ReloadResume(r)
  \/ \E p \in Paths : InternalSave(p)
  \/ TimerFire
  \/ Tick
  \/ \E kind \in Kinds, uri \in Watched : FileEvent(kind, uri)

SpecFlags == InitFlags /\ [][NextFlags]_vars

\* The action executor on lists that go on after an autoSave or a removal
InitLists == InitIn({CfgLists})

SpecLists == InitLists /\ [][NextExec]_vars

\* The action executor on action objects with two keys
InitMixed == InitIn({CfgMixed})

SpecMixed == InitMixed /\ [][NextExec]_vars

\* The watcher registry, started on a watchers list with an element that
\* is no object
InitMalformed == InitIn({CfgNullAfter, CfgStringAfter})

SpecMalformed == InitMalformed /\ [][NextReload]_vars

\* The status bar cache under everything that runs beside an action list:
\* reloads, shutdown, editor saves and their timers; one list at a time
InitCache == InitIn({CfgList})

NextCache ==
  \/ Activate
  \/ ConfigChange(CfgNone)
  \/ \E r \in BagToSet(reloads) : ReloadResume(r)
  \/ Deactivate
  \/ \E p \in Watched : InternalSave(p)
  \/ TimerFire
  \/ Tick
  \/ \E kind \in Kinds, uri \in Watched : tasks = EmptyBag /\ FileEvent(kind, uri)
  \/ \E t \in BagToSet(tasks) : \E o \in Outcomes(t.wait) : TaskResume(t, o)

SpecCache == InitCache /\ [][NextCache]_vars

\* The README example of lines 55-71 (react to external changes, notify
\* and save): changes from outside, editor saves, and the change events
\* of the files that autoSave writes
InitEcho == InitIn({CfgList})

NextEcho ==
  \/ Activate
  \/ \E r \in BagToSet(reloads) : ReloadResume(r)
  \/ \E p \in Watched : InternalSave(p)
  \/ TimerFire
  \/ Tick
  \/ \E uri \in Watched : FileEvent("change", uri)
  \/ \E uri \in Watched : SaveEcho(uri)
  \/ \E t \in BagToSet(tasks) : \E o \in Outcomes(t.wait) : TaskResume(t, o)

SpecEcho == InitEcho /\ [][NextEcho]_vars

\* Folder selection: one folder open or two, events for a file under a
\* folder of the workspace and for a file under none
InitFolders ==
  /\ phase = "loaded"
  /\ config = CfgTell
  /\ workspaceFolders \in {OneFolder, TwoFolders}
  /\ watchers = <<>>
  /\ live = <<>>
  /\ reloads = EmptyBag
  /\ recentlySavedByVSCode = {}
  /\ timers = <<>>
  /\ sinceSave = [p \in Paths |-> Never]
  /\ tasks = EmptyBag
  /\ statusBarItems = {}
  /\ items = EmptyBag
  /\ echo = {}
  /\ lastEvent = NoEvent

NextFolders ==
  \/ Activate
  \/ \E r \in BagToSet(reloads) : ReloadResume(r)
  \/ Deactivate
  \/ \E kind \in Kinds, uri \in Files : FileEvent(kind, uri)
  \/ \E t \in BagToSet(tasks) : \E o \in Outcomes(t.wait) : TaskResume(t, o)

SpecFolders == InitFolders /\ [][NextFolders]_vars

\* Expansion of the path of a watcher: a declaration with a path out of
\* PathTemplates, in a workspace with one folder or none.  A suspended
\* updateConfiguration is a chain of promise reactions, which the
\* JavaScript job queue always runs: weak fairness of ReloadResume.
InitSubst ==
  /\ phase = "loaded"
  /\ config \in {CfgPath(p) : p \in PathTemplates}
  /\ workspaceFolders \in {NoFolder, OneFolder}
  /\ watchers = <<>>
  /\ live = <<>>
  /\ reloads = EmptyBag
  /\ recentlySavedByVSCode = {}
  /\ timers = <<>>
  /\ sinceSave = [p \in Paths |-> Never]
  /\ tasks = EmptyBag
  /\ statusBarItems = {}
  /\ items = EmptyBag
  /\ echo = {}
  /\ lastEvent = NoEvent

NextSubst ==
  \/ Activate
  \/ \E r \in BagToSet(reloads) : ReloadResume(r)
  \/ Deactivate
  \/ \E kind \in Kinds, uri \in Watched : FileEvent(kind, uri)

SpecSubst ==
  /\ InitSubst
  /\ [][NextSubst]_vars
  /\ WF_vars(\E r \in BagToSet(reloads) : ReloadResume(r))

----------------------------------------------------------------------------
(* Properties of save-origin tracking, checked under SpecSave *)

Range(s) == {s[k] : k \in 1..Len(s)}

ChangeEvent == lastEvent.kind = "change"

\* the live watchers that filter out editor saves and have an onChange list
SkipsEditorSaves(w) ==
  /\ Has(w.decl, "onChange")
  /\ ~TriggerFlag(w.decl, "triggerOnVSCodeSave")

\* C1: a change event for P less than SaveWindow ms after any internal save
\* of P starts no onChange list of a declaration with
\* triggerOnVSCodeSave = false, whatever the sequence of internal saves.
C1_SavedWithinWindowIsDropped ==
  (/\ ChangeEvent
   /\ sinceSave[lastEvent.uri] # Never
   /\ sinceSave[lastEvent.uri] < SaveWindow)
  => \A w \in Range(lastEvent.started) : ~SkipsEditorSaves(w)

\* C2 as stated: a change event for P more than SaveWindow ms after the most
\* recent internal save of P is attributed to an external save and starts
\* the onChange list of every declaration with triggerOnVSCodeSave = false.
C2_AfterWindowStartsList ==
  (ChangeEvent /\ sinceSave[lastEvent.uri] > SaveWindow)
  => /\ lastEvent.uri \notin recentlySavedByVSCode
     /\ \A w \in Range(live) : SkipsEditorSaves(w) => w \in Range(lastEvent.started)

\* C2 as amended: the same, for the declarations whose
\* triggerOnExternalSave is true (its default).
C2_AfterWindowStartsListIfExternal ==
  (ChangeEvent /\ sinceSave[lastEvent.uri] > SaveWindow)
  => /\ lastEvent.uri \notin recentlySavedByVSCode
     /\ \A w \in Range(live) :
          (SkipsEditorSaves(w) /\ TriggerFlag(w.decl, "triggerOnExternalSave"))
          => w \in Range(lastEvent.started)

C2_Witness ==
  /\ ChangeEvent
  /\ sinceSave[lastEvent.uri] > SaveWindow
  /\ \E w \in Range(lastEvent.started) : SkipsEditorSaves(w)

----------------------------------------------------------------------------
(* Properties of the watcher registry, checked under SpecReload *)

LiveDecls == [k \in 1..Len(live) |-> live[k].decl]

Settled == phase = "active" /\ reloads = EmptyBag

StartedDecls == [k \in 1..Len(lastEvent.started) |-> lastEvent.started[k].decl]

\* C3: for any sequence of configuration changes, also one that arrives
\* while an earlier updateConfiguration is suspended: once all reloads have
\* finished there is exactly one live subscription per declaration of the
\* configuration read last, and no file event starts the list of one
\* declaration more than once.
C3_OneSubscriptionPerDeclaration ==
  /\ Settled => Len(live) = Len(WatcherConfigs(config))
  /\ \A j, k \in 1..Len(StartedDecls) :
       StartedDecls[j] = StartedDecls[k] => j = k

\* C4: after a reload that read an empty or absent watchers list and no
\* notify object, no subscription is live and no file event starts an action
\* list, until a later reload (which reads another configuration).
C4_EmptyConfigurationLeavesNothing ==
  (/\ phase = "active"
   /\ ~(Has(config, "watchers") /\ Len(config.watchers) > 0)
   /\ ~Has(config, "notify"))
  => /\ live = <<>>
     /\ lastEvent.started = <<>>

\* C5: after a completed reload the live subscriptions are those of exactly
\* one shape: the elements of a non-empty watchers list in list order
\* (notify ignored), else the one notify object, else none.
C5_ShapeDeterminesSubscriptions ==
  Settled =>
    IF Has(config, "watchers") /\ config.watchers # <<>>
    THEN LiveDecls = config.watchers
    ELSE IF Has(config, "notify") THEN LiveDecls = <<config.notify>>
    ELSE LiveDecls = <<>>

\* C6: after deactivate no subscription is live and no file event starts an
\* action list, also when deactivate runs while an updateConfiguration is
\* suspended with declarations left to create.
C6_DeactivateDestroysAll ==
  phase = "deactivated" => live = <<>> /\ lastEvent.started = <<>>

----------------------------------------------------------------------------
(* Properties of the action executor, checked under SpecExec *)

Lists == BagToSet(tasks)

\* the effects of a list were started in declaration order, none skipped
OrderedFx(t) ==
  /\ \A k \in 1..(Len(t.fx) - 1) : t.fx[k][1] <= t.fx[k + 1][1]
  /\ \A i \in 1..t.pos : \E k \in 1..Len(t.fx) : t.fx[k][1] = i

\* C7: within one list the effects of an action start only after all
\* effects of the action before it have completed: the only operation of
\* the list that is outstanding is the one its current action awaits, and
\* the effects were started in declaration order.
C7_EffectsInOrder ==
  \A t \in Lists :
    /\ OrderedFx(t)
    /\ t.inflight \subseteq {[idx |-> t.pos, op |-> t.wait]}

C7_Witness ==
  \E t \in Lists : t.pos = 2 /\ AwaitsHost(t) /\ t.fx[1][1] = 1

\* C8 as stated: the actions after a notify are executed while its
\* notification is still displayed and unanswered.
C8_NotifyDoesNotBlock ==
  \A t \in Lists : \A o \in t.inflight :
    (o.op = "notify" /\ o.idx < Len(ActionList(t)))
    => \E k \in 1..Len(t.fx) : t.fx[k][1] > o.idx

\* C8 as amended: while the notification of a notify action is displayed
\* and unanswered, no action declared after it in the same list has started.
C8_NotifyBlocksItsList ==
  \A t \in Lists : \A o \in t.inflight :
    o.op = "notify"
    => /\ t.pos = o.idx
       /\ \A k \in 1..Len(t.fx) : t.fx[k][1] <= o.idx

C8_Witness ==
  \E t \in Lists :
    /\ [idx |-> 1, op |-> "notify"] \in t.inflight
    /\ Len(ActionList(t)) > 1

\* an orphan is a list that was resumed after its watcher had been disposed
EndedOrphan == lastEvent.kind = "ended" /\ lastEvent.list.orphan

\* C10: disposing a subscription stops its events from starting action
\* lists and cancels no list it started: every list an event starts belongs
\* to a live watcher, a list whose watcher is disposed keeps executing its
\* actions in order, and when it ends it has executed every action of its
\* list.
C10_DisposalCancelsNoList ==
  /\ \A w \in Range(lastEvent.started) : w \in Range(live)
  /\ \A t \in Lists : t.w \notin Range(live) => OrderedFx(t)
  /\ EndedOrphan =>
       /\ lastEvent.list.wait = "done"
       /\ lastEvent.list.pos = Len(ActionList(lastEvent.list)) + 1

----------------------------------------------------------------------------
(* Events while an action list is suspended, checked under SpecSave *)

\* the listeners that let a file event through, in the order of delivery
ExpectedStarted(kind, uri) ==
  SelectSeq(live, LAMBDA w :
    /\ Subscribed(w.decl, kind)
    /\ kind = "change" =>
         IF uri \in recentlySavedByVSCode
         THEN TriggerFlag(w.decl, "triggerOnVSCodeSave")
         ELSE TriggerFlag(w.decl, "triggerOnExternalSave"))

\* C9: while an action list is suspended on the user or on a document
\* operation, a file event starts the list of every listener it passes, an
\* internal save is recorded, a due removal timer fires and a configuration
\* change is handled: none of them waits for the suspended list.
C9_EventsNotBlocked ==
  /\ lastEvent.busy => lastEvent.started = ExpectedStarted(lastEvent.kind, lastEvent.uri)
  /\ (\E t \in Lists : AwaitsHost(t)) =>
       /\ \A p \in Paths :
            (phase = "active" /\ Len(timers) < MaxTimers) => ENABLED InternalSave(p)
       /\ (timers # <<>> /\ Head(timers).remaining = 0) => ENABLED TimerFire
       /\ (phase = "active" /\ BagCardinality(reloads) < MaxReloads)
          => ENABLED ConfigChange(CfgNone)

C9_Witness ==
  /\ lastEvent.busy
  /\ lastEvent.started # <<>>
  /\ \E t \in Lists : t.wait = "notify"

----------------------------------------------------------------------------
(* The trigger flags and the subscriptions, checked under SpecFlags *)

\* lines 415-417: the origin of the change passes the flags of the declaration
OriginMatches(decl, uri) ==
  IF uri \in recentlySavedByVSCode
  THEN TriggerFlag(decl, "triggerOnVSCodeSave")
  ELSE TriggerFlag(decl, "triggerOnExternalSave")

\* the ids that the onChange list of a declaration shows
ShownByOnChange(decl) ==
  {decl.onChange[k].showStatusBarItem :
     k \in {j \in 1..Len(decl.onChange) : Has(decl.onChange[j], "showStatusBarItem")}}

\* C11: a change event starts the onChange list of a declaration exactly
\* when its origin matches the trigger flags (in the save-origin set and
\* triggerOnVSCodeSave, or not in it and triggerOnExternalSave, both true by
\* default); with both flags false the list never runs, so the item it
\* would show is never cached.
C11_StartedIffOriginMatches ==
  /\ ChangeEvent =>
       \A w \in Range(live) :
         Has(w.decl, "onChange")
         => (w \in Range(lastEvent.started) <=> OriginMatches(w.decl, lastEvent.uri))
  /\ \A w \in Range(live) :
       (/\ Has(w.decl, "onChange")
        /\ ~TriggerFlag(w.decl, "triggerOnVSCodeSave")
        /\ ~TriggerFlag(w.decl, "triggerOnExternalSave"))
       => ShownByOnChange(w.decl) \cap statusBarItems = {}

C11_Witness ==
  /\ ChangeEvent
  /\ lastEvent.uri \in recentlySavedByVSCode
  /\ \E w \in Range(lastEvent.started) : ~Has(w.decl, "triggerOnVSCodeSave")
  /\ \E w \in Range(live) : Has(w.decl, "onChange") /\ w \notin Range(lastEvent.started)

----------------------------------------------------------------------------
(* Removals and failures inside a list, checked under SpecLists *)

\* the lists that the last file event ran to their end at once
EndedAtOnce == IF lastEvent.kind \in Kinds THEN Range(lastEvent.ended) ELSE {}

\* C12: a removeStatusBarItem action is a no-op when its id is not cached:
\* the list does not fail, it runs to its end, and the action creates no
\* status bar item.
C12_RemoveUncachedIsNoOp ==
  \A l \in EndedAtOnce :
    \A i \in 1..Len(ActionList(l)) :
      Has(ActionList(l)[i], "removeStatusBarItem")
      => /\ l.wait = "done"
         /\ <<i, "create">> \notin Range(l.fx)

\* a list ended when the load or the save of its autoSave action failed
AutoSaveFailed ==
  /\ lastEvent.kind = "ended"
  /\ lastEvent.failed = "autoSave"

\* the effects of list l from entry k of its history on cover every action
\* declared after action i
GoesOnAfter(l, i, k) ==
  \A j \in (i + 1)..Len(ActionList(l)) :
    \E k2 \in (k + 1)..Len(l.fx) : l.fx[k2][1] = j

\* C13: when the load or the save of an autoSave action fails, an error
\* message is shown, the call of the executor does not fail, and every
\* action declared after the autoSave is executed, in order.
C13_AutoSaveFailureIsReported ==
  /\ AutoSaveFailed =>
       LET l == lastEvent.list
       IN /\ l.wait = "done"
          /\ OrderedFx([l EXCEPT !.pos = Len(ActionList(l))])
          /\ \E k \in 1..Len(l.fx) :
               /\ l.fx[k][2] = "error"
               /\ Has(ActionList(l)[l.fx[k][1]], "autoSave")
               /\ GoesOnAfter(l, l.fx[k][1], k)
  /\ \A t \in Lists :
       \A k \in 1..Len(t.fx) : t.fx[k][2] = "error" => OrderedFx(t)

C13_Witness ==
  /\ AutoSaveFailed
  /\ Len(ActionList(lastEvent.list)) = 2
  /\ lastEvent.list.fx[Len(lastEvent.list.fx)] = <<2, "show">>

----------------------------------------------------------------------------
(* Failure of the open after a click, checked under SpecExec *)

\* a list ended when the open of the file, asked for by a click on the
\* notification, failed (openTextDocument or showTextDocument)
OpenFailed ==
  /\ lastEvent.kind = "ended"
  /\ lastEvent.failed = "open"

\* C14: when the open of the file fails after the user clicked the button
\* of a notification, an error message is shown, the call of the executor
\* does not fail, and the actions declared after the notify are executed.
C14_OpenFailureIsReported ==
  OpenFailed =>
    LET l == lastEvent.list
    IN /\ l.wait = "done"
       /\ \E k \in 1..Len(l.fx) :
            /\ l.fx[k][2] = "error"
            /\ Has(ActionList(l)[l.fx[k][1]], "notify")
            /\ GoesOnAfter(l, l.fx[k][1], k)

----------------------------------------------------------------------------
(* Malformed configurations, checked under SpecMalformed *)

\* some element of the watchers list is not an object
Malformed(cfg) ==
  /\ Has(cfg, "watchers")
  /\ \E k \in 1..Len(cfg.watchers) : Has(cfg.watchers[k], "json")

\* C15: after the reload of a configuration whose watchers list has an
\* element that is no object, no subscription is live, none of the
\* well-formed elements before it either, and no file event starts a list.
C15_MalformedLeavesNoWatchers ==
  (Settled /\ Malformed(config)) => (live = <<>> /\ lastEvent.started = <<>>)

----------------------------------------------------------------------------
(* Properties of variable substitution, checked under SpecSubst *)

\* a reload is inside the loop of stringSubstitutionDepthN
Resolving(r) == r.pc = "subst"

\* C16: the multi-pass resolution of every template ends in every
\* context: from some moment on no reload is inside the substitution loop,
\* also when the value of an environment variable has a placeholder that
\* leads back to the same variable.
C16_ResolutionTerminates ==
  <>[](\A r \in BagToSet(reloads) : ~Resolving(r))

\* the placeholders nothing can resolve when a path is expanded: a folder
\* name the workspace does not have, a folder variable with no folder
\* open, a variable of the current file (createWatcher passes no file)
Unresolvable(tok) ==
  \/ tok = "${workspaceFolder:lib}" /\ "lib" \notin Range(workspaceFolders)
  \/ tok \in {"${workspaceFolder}", "${workspaceFolderBasename}"}
       /\ workspaceFolders = <<>>
  \/ tok = "${file}"

\* C17: in the expanded path of a watcher every unresolvable placeholder
\* has given way to the fallback token, with a diagnostic shown, and the
\* other placeholders of the template have their values.
C17_UnresolvableGetsFallback ==
  \A k \in 1..Len(live) :
     LET w == live[k]
     IN Has(w.decl, "path") =>
          /\ \A i \in 1..Len(w.decl.path) :
                Unresolvable(w.decl.path[i]) =>
                  /\ w.decl.path[i] \notin Range(w.scope)
                  /\ Unknown \in Range(w.scope)
                  /\ w.diags # {}
          /\ "${env:HOME}" \in Range(w.decl.path) =>
                /\ "home" \in Range(w.scope)
                /\ "${env:HOME}" \notin Range(w.scope)

----------------------------------------------------------------------------
(* Expiry of the save-origin entries, checked under SpecFlags *)

\* the editor saved p no more than SaveWindow ms ago
SavedWithinWindow(p) == sinceSave[p] # Never /\ sinceSave[p] <= SaveWindow

\* C18: a path is in recentlySavedByVSCode only if the editor saved it
\* within the last SaveWindow ms, whatever change events have been
\* delivered, and the set is empty when no save is that recent.  (Timers
\* fire at the moment they are due.)
C18_EntriesExpire ==
  /\ \A p \in Paths : p \in recentlySavedByVSCode => SavedWithinWindow(p)
  /\ (\A p \in Paths : ~SavedWithinWindow(p)) => recentlySavedByVSCode = {}

\* the entry of a.txt has expired with no change event in between, while
\* b.txt, saved later, is still in the set
C18_Witness ==
  /\ sinceSave["a.txt"] # Never
  /\ sinceSave["a.txt"] >= SaveWindow
  /\ "a.txt" \notin recentlySavedByVSCode
  /\ "b.txt" \in recentlySavedByVSCode
  /\ statusBarItems = {}

----------------------------------------------------------------------------
(* The subscriptions of a declaration, checked under SpecFlags *)

\* how many of the lists in the sequence ws were started for watcher w
Starts(ws, w) == Cardinality({k \in 1..Len(ws) : ws[k] = w})

\* the ids that the list of a declaration for this kind of event shows
ShownBy(decl, kind) ==
  {decl[HandlerKey(kind)][k].showStatusBarItem :
     k \in {j \in 1..Len(decl[HandlerKey(kind)]) :
              Has(decl[HandlerKey(kind)][j], "showStatusBarItem")}}

\* C19: an event of a kind for which the declaration has no list starts
\* nothing for it; an event of a kind for which it has a list starts that
\* list, once, and nothing else; only change events pass through the
\* save-origin filter, create and delete events start their list whatever
\* the trigger flags are.
C19_ListPerEventType ==
  lastEvent.kind \in Kinds =>
    \A w \in Range(live) :
      LET n == Starts(lastEvent.started, w)
          passes == lastEvent.kind = "change" => OriginMatches(w.decl, lastEvent.uri)
      IN /\ ~Subscribed(w.decl, lastEvent.kind) => n = 0
         /\ (Subscribed(w.decl, lastEvent.kind) /\ ~passes) => n = 0
         /\ (Subscribed(w.decl, lastEvent.kind) /\ passes) =>
              /\ n = 1
              /\ \E l \in Range(lastEvent.ended) :
                    l.w = w /\ l.kind = lastEvent.kind /\ l.wait = "done"
              /\ ShownBy(w.decl, lastEvent.kind) \subseteq statusBarItems

\* a delete event has started the onDelete list of the declaration with
\* both trigger flags off, and nothing for a declaration without onDelete
C19_Witness ==
  /\ lastEvent.kind = "delete"
  /\ \E w \in Range(lastEvent.started) :
        /\ ~TriggerFlag(w.decl, "triggerOnVSCodeSave")
        /\ ~TriggerFlag(w.decl, "triggerOnExternalSave")
  /\ \E w \in Range(live) :
        ~Subscribed(w.decl, "delete") /\ w \notin Range(lastEvent.started)
  /\ "gone" \in statusBarItems

----------------------------------------------------------------------------
(* The frame of the status bar cache, checked under SpecCache *)

\* the action lists that ran in this step: the suspended lists that are
\* new or have moved on, and the lists that came to their end
JustRan ==
  (BagToSet(tasks') \ BagToSet(tasks))
  \cup (IF lastEvent'.kind = "ended" THEN {lastEvent'.list}
        ELSE IF lastEvent'.kind \in Kinds THEN Range(lastEvent'.ended)
        ELSE {})

\* list l has executed a removeStatusBarItem action for this id
Removes(l, id) ==
  \E k \in 1..Len(l.fx) :
     /\ l.fx[k][2] = "remove"
     /\ ActionList(l)[l.fx[k][1]].removeStatusBarItem = id

\* C20: an id leaves the status bar cache only in a step in which an action
\* list executes removeStatusBarItem for that id; every step that runs no
\* action list (a reload, the disposal of the watchers, deactivate, an
\* editor save, a timer) leaves the cache as it is.
C20_OnlyRemoveUncaches ==
  [][/\ \A id \in statusBarItems \ statusBarItems' :
          \E l \in JustRan : Removes(l, id)
     /\ JustRan = {} => statusBarItems' = statusBarItems]_vars

\* the item shown by a watcher is still cached after the extension is
\* deactivated, its watchers disposed and the timers run out
C20_Witness ==
  /\ "build" \in statusBarItems
  /\ phase = "deactivated"
  /\ live = <<>>
  /\ watchers = <<>>
  /\ timers = <<>>
  /\ sinceSave["a.txt"] > SaveWindow
  /\ tasks = EmptyBag

----------------------------------------------------------------------------
(* One effect for each action object, checked under SpecMixed *)

\* the effects that the action object at position i of list l has started
EffectsAt(l, i) ==
  {l.fx[k][2] : k \in {j \in 1..Len(l.fx) : l.fx[j][1] = i}}
  \cap {"show", "remove", "subst", "load"}

\* the lists that are suspended and the list that has just ended
ListsSeen ==
  Lists \cup EndedAtOnce
        \cup (IF lastEvent.kind = "ended" THEN {lastEvent.list} ELSE {})

\* C21: for each action object of a list the executor performs one of
\* status-set, status-remove, notify and force-save and no second one,
\* also when the object has more than one of the four keys.
C21_OneEffectPerObject ==
  \A l \in ListsSeen :
    \A i \in 1..Len(ActionList(l)) :
      /\ Cardinality(EffectsAt(l, i)) <= 1
      /\ (l.wait = "done" \/ i < l.pos) => Cardinality(EffectsAt(l, i)) = 1

----------------------------------------------------------------------------
(* Folder selection, checked under SpecFolders *)

\* the lists whose notification text has been resolved
Told == {l \in ListsSeen : l.msg # <<>>}

\* C22: a folder-owning variable stands for the one open folder when one
\* is open; with two open and no file (the path of a watcher) it becomes
\* the fallback token and a diagnostic is shown; with two open and the
\* file of an event it stands for a folder that contains that file.
C22_FolderSelection ==
  /\ Len(workspaceFolders) = 1 =>
       /\ \A l \in Told : l.msg[1] = workspaceFolders[1]
       /\ \A w \in Range(live) : w.scope = <<workspaceFolders[1]>>
  /\ Len(workspaceFolders) > 1 =>
       /\ \A w \in Range(live) : w.scope = <<Unknown>> /\ w.diags # {}
       /\ \A l \in Told : <<l.msg[1], l.uri>> \in Inside

----------------------------------------------------------------------------
(* The status bar cache and the items of the host, checked under SpecExec *)

\* C23: between the steps of the action lists the status bar items that
\* were created and are not disposed are the items of the cache, one for
\* each cached id: no cached item is disposed, no item is left outside the
\* cache, and showing a cached id creates no second item, also when the
\* lists of several events interleave.
C23_CacheHoldsTheItems ==
  items = SetToBag(statusBarItems)

\* a create event has shown the cached item again, nothing was created
\* for it, while the list of another event awaits the user
C23_Witness ==
  /\ lastEvent.kind = "create"
  /\ lastEvent.busy
  /\ \E l \in Range(lastEvent.ended) :
        l.wait = "done" /\ l.fx = <<<<1, "show">>>>
  /\ items = SetToBag({"build"})
  /\ \E t \in Lists : t.wait = "notify" /\ t.kind = "delete"

----------------------------------------------------------------------------
(* The registry and the watchers of the host, checked under SpecReload *)

\* C24: in every state, also while reloads interleave, the watchers that
\* were created and are not disposed are the entries of the registry list,
\* each with its listeners, and no entry is disposed: disposeWatchers
\* run in that state leaves no watcher alive.
C24_RegistryHoldsTheWatchers ==
  /\ live = watchers
  /\ disposeWatchers(Cur).live = <<>>

\* two reloads are suspended at once and the registry holds a watcher that
\* one of them has created
C24_Witness ==
  /\ BagCardinality(reloads) = 2
  /\ watchers # <<>>
  /\ live = watchers

----------------------------------------------------------------------------
(* The change event of an autoSave, checked under SpecEcho *)

\* the last step delivered the change event of a file autoSave has written
EchoEvent == ChangeEvent /\ Has(lastEvent, "echo")

\* the declarations of the claim: external saves only, autoSave in onChange
SavesOnExternalChange(w) ==
  /\ SkipsEditorSaves(w)
  /\ TriggerFlag(w.decl, "triggerOnExternalSave")
  /\ \E k \in 1..Len(w.decl.onChange) : Has(w.decl.onChange[k], "autoSave")

\* C25: the change event that the save of an autoSave action causes starts
\* no onChange list of a declaration with triggerOnVSCodeSave = false,
\* triggerOnExternalSave = true and autoSave in the list: the list runs
\* once for one external change and no cycle of saves begins.
C25_OwnSaveIsDropped ==
  EchoEvent => \A w \in Range(lastEvent.started) : ~SavesOnExternalChange(w)
====
